---- MODULE Spec2Model ----
(***************************************************************************)
(* eNMS automation engine: Service.build_results (retries over a target    *)
(* set) and Workflow.build_results / Workflow.workflow_run (traversal of   *)
(* a graph of jobs joined by success / failure / prerequisite edges).      *)
(* Source: src/eNMS/models/automation.py                                   *)
(***************************************************************************)
EXTENDS Integers, Sequences, FiniteSets, TLC

\* ------------------------------------------------------------------ bounds
NumDevices == 2
MaxEdges == 3
MaxRetries == 2
MaxProcesses == 2

Devices == 1..NumDevices

\* ------------------------------------------------------------- the graph
\* Member jobs of the Workflow.  Workflow.__init__ puts Start and End first,
\* so self.jobs[1] is End.
Jobs == {"Start", "A", "B", "C", "End"}
EndJob == "End"
start_jobs == <<"Start">>

Edge(s, d, t) == <<s, d, t>>

\* The edges the small graphs are drawn from.
EdgeUniverse ==
  { Edge("Start", "A", "success"), Edge("Start", "B", "success"),
    Edge("Start", "End", "success"),
    Edge("A", "B", "success"), Edge("A", "B", "failure"),
    Edge("A", "End", "success"), Edge("A", "End", "failure"),
    Edge("B", "End", "success"), Edge("B", "A", "success"),
    Edge("A", "B", "prerequisite"), Edge("B", "A", "prerequisite"),
    Edge("B", "End", "prerequisite"), Edge("A", "Start", "failure") }

SmallGraphs == { g \in SUBSET EdgeUniverse : Cardinality(g) <= MaxEdges }

\* Start -> End only.
StartEndGraph == { Edge("Start", "End", "success") }

\* Start -> A, Start -> B, A --prerequisite--> C, B --prerequisite--> C, C -> End.
JoinGraph ==
  { Edge("Start", "A", "success"), Edge("Start", "B", "success"),
    Edge("A", "C", "prerequisite"), Edge("B", "C", "prerequisite"),
    Edge("C", "End", "success") }

\* The same join, with C also a success-successor of A and of B.
JoinSuccessGraph ==
  JoinGraph \cup { Edge("A", "C", "success"), Edge("B", "C", "success") }

\* Start -> A -> {B via success, C via failure} -> End.
SplitGraph ==
  { Edge("Start", "A", "success"), Edge("A", "B", "success"),
    Edge("A", "C", "failure"), Edge("B", "End", "success"),
    Edge("C", "End", "success") }

\* Start -> A, then A -> End along a success and along a failure edge.
ParallelGraph ==
  { Edge("Start", "A", "success"), Edge("A", "End", "success"),
    Edge("A", "End", "failure") }

\* Start -> {A, B} -> End: End is enqueued twice.
DiamondGraph ==
  { Edge("Start", "A", "success"), Edge("Start", "B", "success"),
    Edge("A", "End", "success"), Edge("A", "End", "failure"),
    Edge("B", "End", "success"), Edge("B", "End", "failure") }

\* A cycle A -> B -> A over success and failure edges, with a way out.
CycleGraph ==
  { Edge("Start", "A", "success"), Edge("A", "B", "success"),
    Edge("A", "B", "failure"), Edge("B", "A", "success"),
    Edge("B", "A", "failure"), Edge("B", "End", "success") }

\* Start -> A --failure--> B -> End.
FailureEdgeGraph ==
  { Edge("Start", "A", "success"), Edge("A", "B", "failure"),
    Edge("B", "End", "success") }

NamedGraphs ==
  { StartEndGraph, JoinGraph, JoinSuccessGraph, SplitGraph, ParallelGraph,
    DiamondGraph, CycleGraph, FailureEdgeGraph }

Graphs == SmallGraphs \cup NamedGraphs

\* Mode device traverses the graph once per target device: its graphs are the
\* named ones and the small ones with an edge less.
DeviceModeGraphs ==
  NamedGraphs \cup { g \in SmallGraphs : Cardinality(g) < MaxEdges }

VARIABLES
  \* ---- Workflow configuration (fixed during a Run)
  edges,                \* WorkflowEdge rows of this Workflow
  use_workflow_devices, \* run.use_workflow_devices
  traversal_mode,       \* run.traversal_mode: "service" | "device"
  targets,              \* run.compute_devices(payload) of the Workflow Run
  \* ---- Workflow.build_results
  wpc,                  \* "idle" | "build" | "loop" | "done"
  pending_devices,      \* device mode: devices still to traverse
  device,               \* device mode: the device of the current traversal (0: none)
  device_results,       \* device mode: device -> result of its workflow_run
  final_success,        \* success of the value build_results returned
  \* ---- Workflow.workflow_run locals
  jobs,                 \* the pending stack (popped from the end)
  visited,
  payload,              \* job name -> job_results (the deep copy of the caller's)
  results,              \* [results, success, devices]
  allowed_devices,      \* job name -> set of devices (defaultdict(set))
  initial_targets,
  tp,                   \* last workflow_targets_processing call: its locals
  \* ---- the Run record and the run state
  stop,                 \* run.stop
  cancelled,            \* a workflow_run of this Run returned at "if run.stop"
  dispatched,           \* job -> dispatches in the current workflow_run
  run_dispatched,       \* job -> dispatches in the whole Run
  child_runs,           \* job -> child Runs created (factory("Run")) in this workflow_run
  \* ---- the payload argument of workflow_run and the objects it refers to
  caller_payload,       \* the caller's dict: key -> value
  heap,                 \* address -> contents of the object at that address
  payload_object,       \* the dict the local payload names: [id, initial]
  sub_run,              \* last per-target sub-run: [job, raised]
  \* ---- Service.build_results
  spc,                  \* "idle" | "start" | "attempt" | "done"
  svc_has_targets,      \* run.has_targets
  number_of_retries,    \* run.number_of_retries
  all_targets,          \* what run.compute_devices(payload) returned
  svc_targets,          \* the local "targets": devices still to succeed
  attempt_no,           \* the loop variable i
  svc_results,          \* the local "results"
  executions,           \* device -> the "success" of each run.get_results(payload, device)
  handler_calls,        \* calls of run.get_results(payload), without a device
  \* ---- Service.device_run with run.multiprocessing (one attempt)
  ppc,                  \* "idle" | "map" (pool.map going on) | "joined"
  max_processes,        \* run.max_processes
  pool_targets,         \* the targets of the attempt
  process_args,         \* the tasks no worker has taken yet, in order
  workers,              \* worker thread -> [pc, device, success]
  thread_lock,          \* the worker that holds thread_lock (0: free)
  pool_device_results,  \* the shared dict device_results
  handled,              \* device -> what run.get_results(payload, device) returned
  \* ---- Workflow.workflow_run, one statement at a time
  vpc,                  \* "top" | "returned" | "generator" | "iterate"
  current,              \* the locals job, job_results and the job's has_targets
  successors,           \* the generator "successors": [started, yields]
  assignments,          \* job -> assignments of payload[job.name]
  pushers               \* for each entry of the stack, the job that appended it

wvars ==
  << edges, use_workflow_devices, traversal_mode, targets, wpc, pending_devices,
     device, device_results, final_success, jobs, visited, payload, results,
     allowed_devices, initial_targets, tp, stop, cancelled, dispatched,
     run_dispatched, child_runs, caller_payload, heap, payload_object,
     sub_run >>

svars ==
  << spc, svc_has_targets, number_of_retries, all_targets, svc_targets, attempt_no,
     svc_results, executions, handler_calls >>

pvars ==
  << ppc, max_processes, pool_targets, process_args, workers, thread_lock,
     pool_device_results, handled >>

vvars == << vpc, current, successors, assignments, pushers >>

vars == << wvars, svars, pvars, vvars >>

\* -------------------------------------------------------------- helpers
RECURSIVE Perms(_)
\* Every order in which the members of S can be listed.
Perms(S) ==
  IF S = {} THEN { <<>> }
  ELSE UNION { { <<x>> \o p : p \in Perms(S \ {x}) } : x \in S }

\* A dict as a function on its keys.
Put(f, k, v) == [x \in (DOMAIN f) \cup {k} |-> IF x = k THEN v ELSE f[x]]
EmptyDict == [x \in {} |-> TRUE]

\* Job.adjacent_jobs(workflow, "destination", subtype): the jobs at the end of
\* this job's outgoing edges of the subtype (the edges of one list are yielded
\* in the order the relationship holds them).
Destinations(E, job, subtype) ==
  { e[2] : e \in { x \in E : x[1] = job /\ x[3] = subtype } }

\* Job.adjacent_jobs(workflow, "source", subtype)
Sources(E, job, subtype) ==
  { e[1] : e \in { x \in E : x[2] = job /\ x[3] = subtype } }

TruthyOnlyTrue(s) == s = "true"

\* Python truth of a "success" value: True and "skipped" are truthy.
Truthy(s) == s # "false"

\* ------------------------------------------------------ results of a job
\* A job's result as workflow_run reads it: "success" (True, False or
\* "skipped") and the per-device entries of results["results"]["devices"]
\* (each reduced to its "success"); no "devices" key reads as the empty dict.
JobResult(success, devices) == [success |-> success, devices |-> devices]

SkippedResult == JobResult("skipped", EmptyDict)

AllSuccess(devs) ==
  IF \A d \in DOMAIN devs : devs[d] THEN "true" ELSE "false"

\* SwissArmyKnifeService.Start and .End: {'success': True}.
BuiltIn(job) == job \in {"Start", "End"}

\* job_run.run(payload) of a member Service: what Service.build_results
\* returns.  With has_targets and a non-empty properties["devices"] there is
\* one entry per device and success means every device succeeded; otherwise
\* the handler ran once and its own success is returned.
ChildResults(job, has_targets, valid_devices) ==
  IF has_targets /\ valid_devices # {}
  THEN { JobResult(AllSuccess(f), f) :
           f \in IF BuiltIn(job)
                 THEN { [d \in valid_devices |-> TRUE] }
                 ELSE [valid_devices -> BOOLEAN] }
  ELSE { JobResult(s, EmptyDict) :
           s \in IF BuiltIn(job) THEN {"true"} ELSE {"true", "false"} }

\* job.skip or a truthy run.eval(job.skip_python_query): read once per
\* dispatch.  Start and End are the shared built-in Services, never skipped.
SkipChoices(job) == IF BuiltIn(job) THEN {FALSE} ELSE BOOLEAN

\* ------------------------------------------------ Service.build_results
\* One per-device result of an attempt: its "success", and the attempt it
\* comes from.
DeviceResult(success, i) == [success |-> success, attempt |-> i]

NoAttempt == [set |-> FALSE, success |-> FALSE, attempt |-> 0]

\* results = {"results": {}, "success": False, "runtime": run.runtime}
\*   devices, has_devices: results["results"]["devices"]
\*   plain: results["results"] when it is an attempt without targets
\*   attempts: n -> results["Attempt n"]; attempts_s: n -> results["Attempts n"]
\*   error: the value returned is {"success": False, "error": ...}
NewServiceResults ==
  [devices |-> EmptyDict, has_devices |-> FALSE, plain |-> NoAttempt,
   success |-> FALSE, attempts |-> EmptyDict, attempts_s |-> EmptyDict,
   error |-> FALSE]

\* No Service Run is going on.
ServiceIdle ==
  /\ spc = "idle"
  /\ svc_has_targets = FALSE
  /\ number_of_retries = 0
  /\ all_targets = {}
  /\ svc_targets = {}
  /\ attempt_no = 0
  /\ svc_results = NewServiceResults
  /\ executions = [d \in Devices |-> <<>>]
  /\ handler_calls = 0

\* No multiprocessing attempt is going on.
PoolIdle ==
  /\ ppc = "idle"
  /\ max_processes = 1
  /\ pool_targets = {}
  /\ process_args = <<>>
  /\ workers = <<>>
  /\ thread_lock = 0
  /\ pool_device_results = EmptyDict
  /\ handled = EmptyDict

\* Service.device_run with targets: one result per target device.
DeviceRunAttempts(tgts, i) ==
  { [d \in tgts |-> DeviceResult(out[d], i)] : out \in [tgts -> BOOLEAN] }

\* "for device in set(targets)": the devices whose entry has success.
SucceededDevices(tgts, attempt) == { d \in tgts : attempt[d].success }

RemainingTargetsKeepAll(tgts, attempt) == tgts

\* targets.remove(device) for every device that succeeded.
RemainingTargets(tgts, attempt) == tgts \ SucceededDevices(tgts, attempt)

DevicesAfterAttemptNoCopy(devs, tgts, attempt, i, retries) ==
  LET done == SucceededDevices(tgts, attempt)
  IN [d \in (DOMAIN devs) \cup done |->
        IF d \in done THEN attempt[d] ELSE devs[d]]

\* results["results"]["devices"] after an attempt: the entries of the
\* devices that succeeded and, on the last attempt, of those left.
DevicesAfterAttempt(devs, tgts, attempt, i, retries) ==
  LET done == SucceededDevices(tgts, attempt)
      left == RemainingTargets(tgts, attempt)
      copied == IF left # {} /\ i = retries THEN tgts ELSE done
  IN [d \in (DOMAIN devs) \cup copied |->
        IF d \in copied THEN attempt[d] ELSE devs[d]]

\* Lines 147-154: the targets are computed, or compute_devices raises.
ServiceEntry ==
  /\ spc = "start"
  /\ \/ /\ spc' = "attempt"
        /\ svc_targets' = IF svc_has_targets THEN all_targets ELSE {}
        /\ svc_results' = [NewServiceResults EXCEPT !.has_devices = svc_has_targets]
     \/ /\ svc_has_targets
        /\ spc' = "done"
        /\ svc_results' = [NewServiceResults EXCEPT !.error = TRUE]
        /\ UNCHANGED svc_targets
  /\ UNCHANGED << svc_has_targets, number_of_retries, all_targets, attempt_no,
                  executions, handler_calls >>
  /\ UNCHANGED << wvars, pvars, vvars >>

RecordAttemptOnlyFinal(atts, left, attempt, i, retries) ==
  IF left # {} /\ retries # 0 /\ i = retries THEN Put(atts, i + 1, attempt) ELSE atts

\* Lines 171-173: with devices left and retries configured,
\* 'results[f"Attempt {i + 1}"] = attempt'.
RecordAttempt(atts, left, attempt, i, retries) ==
  IF left # {} /\ retries # 0 THEN Put(atts, i + 1, attempt) ELSE atts

\* Lines 155-180: one attempt over the devices left.
AttemptTargets ==
  /\ spc = "attempt"
  /\ svc_targets # {}
  /\ \E attempt \in DeviceRunAttempts(svc_targets, attempt_no) :
       LET left == RemainingTargets(svc_targets, attempt)
       IN
       /\ executions' = [d \in Devices |->
                           IF d \in svc_targets
                           THEN Append(executions[d], attempt[d].success)
                           ELSE executions[d]]
       /\ svc_targets' = left
       /\ svc_results' =
            [svc_results EXCEPT
               !.devices = DevicesAfterAttempt(@, svc_targets, attempt,
                                               attempt_no, number_of_retries),
               !.success = IF left = {} THEN TRUE ELSE @,
               !.attempts = RecordAttempt(@, left, attempt, attempt_no,
                                          number_of_retries)]
       /\ IF left # {} /\ attempt_no # number_of_retries
          THEN /\ attempt_no' = attempt_no + 1
               /\ spc' = "attempt"
          ELSE /\ spc' = "done"
               /\ UNCHANGED attempt_no
  /\ UNCHANGED << svc_has_targets, number_of_retries, all_targets, handler_calls >>
  /\ UNCHANGED << wvars, pvars, vvars >>

LastAttemptOnlyOnExhaustion(ok, i, retries) == i = retries

\* Line 184: 'if attempt["success"] or i == run.number_of_retries'
LastAttempt(ok, i, retries) == ok \/ i = retries

\* Lines 155-158, 181-189: one attempt without targets.
AttemptNoTargets ==
  /\ spc = "attempt"
  /\ svc_targets = {}
  /\ \E ok \in BOOLEAN :
       LET attempt == [set |-> TRUE, success |-> ok, attempt |-> attempt_no]
           last == LastAttempt(ok, attempt_no, number_of_retries)
       IN
       /\ handler_calls' = handler_calls + 1
       /\ svc_results' =
            [svc_results EXCEPT
               !.attempts_s = IF number_of_retries # 0
                              THEN Put(@, attempt_no + 1, attempt) ELSE @,
               !.plain = IF last THEN attempt ELSE @,
               !.has_devices = IF last THEN FALSE ELSE @,
               !.success = IF last THEN ok ELSE @]
       /\ IF last
          THEN /\ spc' = "done"
               /\ UNCHANGED attempt_no
          ELSE /\ attempt_no' = attempt_no + 1
               /\ spc' = "attempt"
  /\ UNCHANGED << svc_has_targets, number_of_retries, all_targets, svc_targets,
                  executions >>
  /\ UNCHANGED << wvars, pvars, vvars >>

\* No statement of a loop iteration was executed: the locals of lines
\* 337-430 are unbound.
NoCurrent ==
  [job |-> "none", results |-> JobResult("false", EmptyDict), has_targets |-> FALSE]

\* A generator with nothing left to yield.
NoGenerator == [started |-> TRUE, yields |-> <<>>]

VisitIdle ==
  /\ vpc = "top"
  /\ current = NoCurrent
  /\ successors = NoGenerator
  /\ assignments = [j \in Jobs |-> 0]
  /\ pushers = <<>>

\* The payload the caller passes: a dict with one entry, "initial", that
\* refers to a mutable object at address 1, whose contents are 0.
CallerPayload == [k \in {"initial"} |-> [ref |-> 1]]
CallerHeap == [a \in {1} |-> 0]

\* The parameter payload names the caller's dict.
CallerObject == [id |-> "caller", initial |-> 1]

\* No Workflow Run is going on.
WorkflowIdle ==
  /\ edges = {}
  /\ use_workflow_devices = FALSE
  /\ traversal_mode = "service"
  /\ targets = {}
  /\ wpc = "idle"
  /\ pending_devices = {}
  /\ device = 0
  /\ device_results = EmptyDict
  /\ final_success = FALSE
  /\ jobs = <<>>
  /\ visited = {}
  /\ payload = EmptyDict
  /\ results =
       [results |-> EmptyDict, initial |-> 0, success |-> FALSE,
        has_devices |-> FALSE, devices |-> EmptyDict]
  /\ allowed_devices = [j \in Jobs |-> {}]
  /\ initial_targets = {}
  /\ tp = [job |-> "none", passed |-> {}, failed |-> {}]
  /\ stop = FALSE
  /\ cancelled = FALSE
  /\ dispatched = [j \in Jobs |-> 0]
  /\ run_dispatched = [j \in Jobs |-> 0]
  /\ child_runs = [j \in Jobs |-> 0]
  /\ caller_payload = CallerPayload
  /\ heap = CallerHeap
  /\ payload_object = CallerObject
  /\ sub_run = [job |-> "none", raised |-> {}]
  /\ VisitIdle

InitService ==
  /\ WorkflowIdle
  /\ spc = "start"
  /\ svc_has_targets \in BOOLEAN
  /\ number_of_retries \in 0..MaxRetries
  /\ all_targets \in IF svc_has_targets THEN SUBSET Devices ELSE { {} }
  /\ svc_targets = {}
  /\ attempt_no = 0
  /\ svc_results = NewServiceResults
  /\ executions = [d \in Devices |-> <<>>]
  /\ handler_calls = 0
  /\ PoolIdle

\* Another thread sets run.stop while the Service Run is going on.
\* Service.build_results never reads it.
ServiceSetStop ==
  /\ spc \in {"start", "attempt"}
  /\ ~stop
  /\ stop' = TRUE
  /\ UNCHANGED << svars, pvars, vvars >>
  /\ UNCHANGED << sub_run, caller_payload, heap, payload_object, edges,
                  use_workflow_devices, traversal_mode, targets, wpc,
                  pending_devices, device, device_results, final_success, jobs,
                  visited, payload, results, allowed_devices, initial_targets,
                  tp, cancelled, dispatched, run_dispatched, child_runs >>

NextService ==
  \/ ServiceEntry
  \/ AttemptTargets
  \/ AttemptNoTargets
  \/ ServiceSetStop

SpecService == InitService /\ [][NextService]_vars

\* ---------------------------------------------- Service.build_results: claims
Last(seq) == seq[Len(seq)]

\* C1: with a non-empty target set and R retries, the handler runs at most
\* R+1 times per device, and a device whose attempt returned success is
\* removed from the targets and never run again: its success is the last of
\* its executions.
C1_AtMostRPlusOneAndNoRetryAfterSuccess ==
  \A d \in Devices :
    /\ Len(executions[d]) <= number_of_retries + 1
    /\ \A k \in 1..Len(executions[d]) :
         executions[d][k] => /\ k = Len(executions[d])
                             /\ d \notin svc_targets

\* One device succeeded at once and was left alone while another used up
\* every retry.
C1_Witness ==
  /\ spc = "done"
  /\ number_of_retries = MaxRetries
  /\ \E d, e \in all_targets :
       /\ executions[d] = << TRUE >>
       /\ Len(executions[e]) = MaxRetries + 1
       /\ ~Last(executions[e])

\* C2: when build_results returns for a non-empty target set T,
\* results.results.devices has exactly one entry per device of T, the result
\* of the attempt in which the device succeeded or of the final attempt if it
\* never did, and success is true exactly when every device of T succeeded in
\* some attempt.
C2_OneEntryPerDeviceAndSuccessIffAll ==
  (spc = "done" /\ ~svc_results.error /\ svc_has_targets /\ all_targets # {}) =>
    /\ svc_results.has_devices
    /\ DOMAIN svc_results.devices = all_targets
    /\ \A d \in all_targets :
         LET runs == executions[d]
             entry == svc_results.devices[d]
         IN /\ runs # <<>>
            /\ entry = DeviceResult(Last(runs), Len(runs) - 1)
            /\ Last(runs) \/ Len(runs) = number_of_retries + 1
    /\ svc_results.success <=>
         \A d \in all_targets : \E k \in DOMAIN executions[d] : executions[d][k]

\* A device failed on every attempt: its entry is the final attempt's and
\* success is false, while the other device's entry is its first attempt's.
C2_Witness ==
  /\ spc = "done"
  /\ number_of_retries = 1
  /\ all_targets = Devices
  /\ DOMAIN svc_results.devices = Devices
  /\ ~svc_results.success
  /\ \E d, e \in all_targets :
       /\ svc_results.devices[d] = DeviceResult(TRUE, 0)
       /\ svc_results.devices[e] = DeviceResult(FALSE, 1)

\* C20: in a Service Run without targets and with R retries the handler is
\* invoked until the first attempt whose success is true or until R+1
\* attempts were made, never more; the returned results.results is the last
\* attempt made, verbatim, and the returned success is that attempt's.
C20_NoTargetsUntilSuccessOrExhaustion ==
  (all_targets = {} /\ ~svc_results.error) =>
    /\ handler_calls <= number_of_retries + 1
    /\ \A n \in DOMAIN svc_results.attempts_s :
         svc_results.attempts_s[n].success => n = handler_calls
    /\ spc = "attempt" => handler_calls = attempt_no
    /\ spc = "done" =>
         /\ handler_calls >= 1
         /\ svc_results.plain.success \/ handler_calls = number_of_retries + 1
         /\ svc_results.plain =
              [set |-> TRUE, success |-> svc_results.success,
               attempt |-> handler_calls - 1]
         /\ ~svc_results.has_devices
         /\ number_of_retries # 0 =>
              svc_results.attempts_s[handler_calls] = svc_results.plain

\* The handler failed once and then succeeded, with retries left: the Run
\* returned the second attempt.
C20_Witness ==
  /\ spc = "done"
  /\ all_targets = {}
  /\ number_of_retries = MaxRetries
  /\ handler_calls = 2
  /\ svc_results.success
  /\ svc_results.plain = [set |-> TRUE, success |-> TRUE, attempt |-> 1]

\* C21: in a Service Run with a non-empty target set and R > 0 retries, every
\* non-final attempt i (0-based, i < R) that leaves at least one device failed
\* is recorded under the key "Attempt <i+1>" before the next attempt starts
\* (the devices it ran, each with that attempt's outcome); with R = 0 the
\* result never has an "Attempt <n>" key.
C21_FailedAttemptsRecorded ==
  (all_targets # {} /\ ~svc_results.error) =>
    /\ number_of_retries = 0 => DOMAIN svc_results.attempts = {}
    /\ number_of_retries > 0 =>
         \A i \in 0..(number_of_retries - 1) :
           LET ran == { d \in Devices : Len(executions[d]) > i }
           IN (\E d \in ran : ~executions[d][i + 1]) =>
                /\ (i + 1) \in DOMAIN svc_results.attempts
                /\ DOMAIN svc_results.attempts[i + 1] = ran
                /\ \A d \in ran :
                     svc_results.attempts[i + 1][d] =
                       DeviceResult(executions[d][i + 1], i)

\* The second attempt is about to start: the first one left a device failed
\* and is in the result under "Attempt 1".
C21_Witness ==
  /\ spc = "attempt"
  /\ attempt_no = 1
  /\ number_of_retries = MaxRetries
  /\ all_targets = Devices
  /\ svc_targets # {}
  /\ DOMAIN svc_results.attempts = {1}
  /\ \E d \in Devices : svc_results.attempts[1][d] = DeviceResult(FALSE, 0)

\* C12: run.stop is honoured between Service attempts: once it is true during
\* attempt i, with retries remaining and failed devices left, no attempt i+1
\* is started (the handler is not run again).
C12_NoAttemptAfterStop ==
  [][(stop /\ spc = "attempt" /\ attempt_no > 0) =>
       /\ executions' = executions
       /\ handler_calls' = handler_calls]_vars

\* ------------------------- Service.device_run with run.multiprocessing
Min(a, b) == IF a <= b THEN a ELSE b

processes_unbounded == Cardinality(pool_targets)

\* processes = min(len(targets), run.max_processes): the threads of the pool.
processes == Min(Cardinality(pool_targets), max_processes)

IdleWorker == [pc |-> "idle", device |-> 0, success |-> FALSE]

LockAlwaysFree == TRUE

\* thread_lock can be acquired.
LockFree == thread_lock = 0

\* A worker thread takes the next task and calls get_device_result: lines
\* 112-114, the handler is invoked for the device.
GetDeviceResultCall(w) ==
  /\ ppc = "map"
  /\ workers[w].pc = "idle"
  /\ process_args # <<>>
  /\ workers' = [workers EXCEPT ![w] = [pc |-> "handler",
                                        device |-> Head(process_args),
                                        success |-> FALSE]]
  /\ process_args' = Tail(process_args)
  /\ UNCHANGED << ppc, max_processes, pool_targets, thread_lock,
                  pool_device_results, handled >>
  /\ UNCHANGED << wvars, svars, vvars >>

\* Line 114: run.get_results(payload, device) returns.
GetDeviceResultReturn(w) ==
  /\ ppc = "map"
  /\ workers[w].pc = "handler"
  /\ \E ok \in BOOLEAN :
       /\ workers' = [workers EXCEPT ![w].pc = "acquire", ![w].success = ok]
       /\ handled' = Put(handled, workers[w].device, ok)
  /\ UNCHANGED << ppc, max_processes, pool_targets, process_args, thread_lock,
                  pool_device_results >>
  /\ UNCHANGED << wvars, svars, vvars >>

\* Line 115: "with args[3]" acquires thread_lock.
GetDeviceResultAcquire(w) ==
  /\ ppc = "map"
  /\ workers[w].pc = "acquire"
  /\ LockFree
  /\ thread_lock' = w
  /\ workers' = [workers EXCEPT ![w].pc = "write"]
  /\ UNCHANGED << ppc, max_processes, pool_targets, process_args,
                  pool_device_results, handled >>
  /\ UNCHANGED << wvars, svars, vvars >>

\* Line 116: the entry is written and the lock released at the end of the
\* "with" block; the worker is ready for its next task.
GetDeviceResultWrite(w) ==
  /\ ppc = "map"
  /\ workers[w].pc = "write"
  /\ pool_device_results' =
       Put(pool_device_results, workers[w].device, workers[w].success)
  /\ thread_lock' = IF thread_lock = w THEN 0 ELSE thread_lock
  /\ workers' = [workers EXCEPT ![w] = IdleWorker]
  /\ UNCHANGED << ppc, max_processes, pool_targets, process_args, handled >>
  /\ UNCHANGED << wvars, svars, vvars >>

\* Lines 133-135: pool.map returns once every task is done; close and join.
PoolJoin ==
  /\ ppc = "map"
  /\ process_args = <<>>
  /\ \A w \in DOMAIN workers : workers[w].pc = "idle"
  /\ ppc' = "joined"
  /\ UNCHANGED << max_processes, pool_targets, process_args, workers,
                  thread_lock, pool_device_results, handled >>
  /\ UNCHANGED << wvars, svars, vvars >>

\* Lines 124-132: the shared dict, the lock, the tasks and the pool.
InitPool ==
  /\ WorkflowIdle
  /\ ServiceIdle
  /\ ppc = "map"
  /\ max_processes \in 1..MaxProcesses
  /\ pool_targets \in (SUBSET Devices) \ { {} }
  /\ process_args \in Perms(pool_targets)
  /\ workers = [w \in 1..processes |-> IdleWorker]
  /\ thread_lock = 0
  /\ pool_device_results = EmptyDict
  /\ handled = EmptyDict

NextPool ==
  \/ \E w \in DOMAIN workers : GetDeviceResultCall(w)
  \/ \E w \in DOMAIN workers : GetDeviceResultReturn(w)
  \/ \E w \in DOMAIN workers : GetDeviceResultAcquire(w)
  \/ \E w \in DOMAIN workers : GetDeviceResultWrite(w)
  \/ PoolJoin

SpecPool == InitPool /\ [][NextPool]_vars

\* ------------------------------------------------- device_run: claims
\* The workers whose handler invocation is in progress.
InHandler == { w \in DOMAIN workers : workers[w].pc = "handler" }

\* The workers inside the "with" block.
InWith == { w \in DOMAIN workers : workers[w].pc = "write" }

\* C14: with multiprocessing, at most min(|targets|, max_processes) handler
\* invocations are in progress at the same time, and the attempt does not
\* return before every target device has been handled.
C14_BoundedOverlapAndAllHandled ==
  /\ Cardinality(InHandler) <= Min(Cardinality(pool_targets), max_processes)
  /\ ppc = "joined" => DOMAIN handled = pool_targets

\* More targets than processes: max_processes invocations are in progress
\* while a target still waits for a worker.
C14_Witness ==
  /\ ppc = "map"
  /\ max_processes < Cardinality(pool_targets)
  /\ Cardinality(InHandler) = max_processes
  /\ process_args # <<>>

\* C15: under every interleaving of the workers of one attempt at most one
\* worker holds the lock and writes the shared map at a time, and no write
\* is lost: after the pool is joined the map holds exactly one entry per
\* target device, that device's handler result.
C15_ExclusiveWritesNoneLost ==
  /\ Cardinality(InWith) <= 1
  /\ \A w \in InWith : thread_lock = w
  /\ \A d \in DOMAIN pool_device_results :
       d \in DOMAIN handled /\ pool_device_results[d] = handled[d]
  /\ ppc = "joined" =>
       /\ DOMAIN pool_device_results = pool_targets
       /\ pool_device_results = handled

\* One worker writes under the lock while another, its handler done, waits
\* for the lock.
C15_Witness ==
  /\ ppc = "map"
  /\ \E w, v \in DOMAIN workers :
       /\ workers[w].pc = "write"
       /\ thread_lock = w
       /\ workers[v].pc = "acquire"

\* ------------------------------------------------------- workflow_run
PropagatesDevices == use_workflow_devices /\ traversal_mode = "service"

StartSet == { start_jobs[i] : i \in DOMAIN start_jobs }

NoTp == [job |-> "none", passed |-> {}, failed |-> {}]
\* results["results"] is split in two: results, the entries of the member
\* jobs, and initial, the address its "initial" entry refers to (0: none).
NoResults ==
  [results |-> EmptyDict, initial |-> 0, success |-> FALSE,
   has_devices |-> FALSE, devices |-> EmptyDict]
ZeroCount == [j \in Jobs |-> 0]
NoSubRun == [job |-> "none", raised |-> {}]

\* The member jobs that may have a python_query.
QueryJobs == {"A"}

\* job.python_query, read once per dispatch.  The per-target loop of lines
\* 351-376 is entered with use_workflow_devices in mode service; in mode
\* device the one child Run of lines 378-391 returns what an ordinary child
\* Run returns.
PythonQueryChoices(job) ==
  IF PropagatesDevices /\ job \in QueryJobs THEN BOOLEAN ELSE {FALSE}

\* What happens for one base_target: its child Run returns success, returns
\* failure, or an exception is raised.
TargetOutcomes == {"true", "false", "raised"}

\* Lines 352-367: success starts True and is set to False when a child Run
\* returns a falsy success; the except clause leaves it alone.
SubRunSuccess(out) ==
  IF \E d \in DOMAIN out : out[d] = "false" THEN "false" ELSE "true"

\* Lines 352-376: job_results of the per-target sub-run, one entry per
\* device of allowed_devices[job.name]; an exception gives the entry
\* {"success": False, "error": ...}.
SubRuns(job) ==
  { [result |-> JobResult(SubRunSuccess(out),
                          [d \in DOMAIN out |-> out[d] = "true"]),
     sub_run |-> [job |-> job,
                  raised |-> { d \in DOMAIN out : out[d] = "raised" }],
     child_runs |-> Cardinality(DOMAIN out)] :
      out \in [allowed_devices[job] -> TargetOutcomes] }

\* Lines 348-349: the job is skipped.
SkippedRun == [result |-> SkippedResult, sub_run |-> NoSubRun, child_runs |-> 0]

\* job.has_targets, read once per dispatch.  Start and End run their handler
\* once, without targets.  workflow_run reads the per-device entries of a
\* result only when it propagates devices: in the other modes the jobs are
\* taken without targets.
HasTargetsChoices(job) ==
  IF PropagatesDevices /\ ~BuiltIn(job) THEN BOOLEAN ELSE {FALSE}

\* Workflow.compute_valid_devices
compute_valid_devices(job, has_targets) ==
  IF ~has_targets THEN {}
  ELSE IF use_workflow_devices THEN allowed_devices[job]
  ELSE targets

\* Lines 392-408: the ordinary child Run.
OrdinaryRuns(job, has_targets) ==
  { [result |-> r, sub_run |-> NoSubRun, child_runs |-> 1] :
      r \in ChildResults(job, has_targets,
                         IF traversal_mode = "service"
                         THEN compute_valid_devices(job, has_targets)
                         ELSE {device}) }

\* The devices workflow_targets_processing sends along success edges.
PassedDevices(job, r, has_targets) ==
  IF has_targets /\ r.success # "skipped"
  THEN { d \in DOMAIN r.devices : r.devices[d] }
  ELSE IF Truthy(r.success) THEN allowed_devices[job] ELSE {}

\* The devices workflow_targets_processing sends along failure edges.
FailedDevices(job, r, has_targets) ==
  IF has_targets /\ r.success # "skipped"
  THEN { d \in DOMAIN r.devices : ~r.devices[d] }
  ELSE IF Truthy(r.success) THEN {} ELSE allowed_devices[job]

YieldedAlongAnyEdge(job, devices, edge_type) ==
  IF devices = {} THEN {}
  ELSE Destinations(edges, job, "success") \cup Destinations(edges, job, "failure")

\* The successors workflow_targets_processing yields for one edge type:
\* none when no device goes that way.
YieldedAlong(job, devices, edge_type) ==
  IF devices = {} THEN {} ELSE Destinations(edges, job, edge_type)

\* allowed_devices[successor.name] |= devices, for every yielded successor.
\* The sets of the start jobs are the initial_targets object itself, so an
\* update of one of them updates initial_targets and all of them.
AllowedAfter(job, passed, failed) ==
  LET toS == YieldedAlong(job, passed, "success")
      toF == YieldedAlong(job, failed, "failure")
      Added(s) == (IF s \in toS THEN passed ELSE {})
                    \cup (IF s \in toF THEN failed ELSE {})
      shared == initial_targets \cup UNION { Added(s) : s \in StartSet }
  IN [s \in Jobs |->
        IF s \in StartSet THEN shared ELSE allowed_devices[s] \cup Added(s)]

InitialTargetsAfter(job, passed, failed) ==
  AllowedAfter(job, passed, failed)[start_jobs[1]]

\* The orders in which workflow_targets_processing can yield: the success
\* successors first, then the failure successors.
TargetsProcessingOrders(job, passed, failed) ==
  { p \o q : p \in Perms(YieldedAlong(job, passed, "success")),
             q \in Perms(YieldedAlong(job, failed, "failure")) }

\* The successors of the other modes: the edge type that matches success.
PlainOrders(job, r) ==
  Perms(Destinations(edges, job,
                     IF Truthy(r.success) THEN "success" ELSE "failure"))

StopNeverObserved == FALSE

\* "if run.stop" at the top of a loop iteration.
StopObserved == stop

BlockedByPrerequisiteOnly(job) ==
  \E node \in Sources(edges, job, "prerequisite") : node \notin visited

BlockedByVisitedOnly(job) == job \in visited

\* "job in visited or any(node not in visited for node in prerequisites)"
Blocked(job) ==
  \/ job \in visited
  \/ \E node \in Sources(edges, job, "prerequisite") : node \notin visited

SuccessAfterAppendAnyMode(order) ==
  IF \E i \in DOMAIN order : order[i] = EndJob THEN TRUE ELSE results.success

\* results["success"] after the successors were appended.
SuccessAfterAppend(order) ==
  IF ~use_workflow_devices /\ \E i \in DOMAIN order : order[i] = EndJob
  THEN TRUE ELSE results.success

\* workflow_run returns res: build_results returns it (mode service) or
\* stores it under the device and goes on with the next device.
Return(res) ==
  IF traversal_mode = "service"
  THEN /\ wpc' = "done"
       /\ final_success' = res.success
       /\ UNCHANGED device_results
  ELSE /\ wpc' = "build"
       /\ device_results' = Put(device_results, device, res)
       /\ UNCHANGED final_success

\* A fresh address of the heap.
NewAddress(h) == Cardinality(DOMAIN h) + 1

deepcopy_alias(obj, h) == [object |-> obj, heap |-> h]

\* deepcopy(payload): a new dict whose "initial" entry refers to a new
\* object with the contents of the one the argument's entry refers to.
deepcopy(obj, h) ==
  [object |-> [id |-> "copy", initial |-> NewAddress(h)],
   heap |-> Put(h, NewAddress(h), h[obj.initial])]

\* payload[job.name] = job_results, seen from the caller's dict: it changes
\* only if the local payload is that very dict.
CallerPayloadAfter(job, job_results) ==
  IF payload_object.id = "caller"
  THEN Put(caller_payload, job, job_results)
  ELSE caller_payload

\* Lines 321-333: the locals of a traversal.
WorkflowRunEntry(dev) ==
  /\ device' = dev
  /\ jobs' = start_jobs
  /\ LET copy == deepcopy(CallerObject, heap)
     IN /\ payload_object' = copy.object
        /\ heap' = copy.heap
  /\ payload' = EmptyDict
  /\ visited' = {}
  /\ results' = NoResults
  /\ initial_targets' = IF PropagatesDevices THEN targets ELSE {}
  /\ allowed_devices' =
       [j \in Jobs |-> IF PropagatesDevices /\ j \in StartSet THEN targets ELSE {}]
  /\ tp' = NoTp
  /\ sub_run' = NoSubRun
  /\ dispatched' = ZeroCount
  /\ child_runs' = ZeroCount
  /\ wpc' = "loop"

\* Workflow.build_results, mode service: one traversal.
BuildResultsService ==
  /\ wpc = "build"
  /\ traversal_mode = "service"
  /\ WorkflowRunEntry(0)
  /\ UNCHANGED << svars, pvars, vvars >>
  /\ UNCHANGED << caller_payload, edges,
                  use_workflow_devices, traversal_mode, targets,
                  pending_devices, device_results, final_success, stop,
                  cancelled, run_dispatched >>

\* "for device in run.compute_devices(payload)": the devices are
\* interchangeable, so they are taken in ascending order.
NextDevice(S) == CHOOSE d \in S : \A e \in S : d <= e

\* Workflow.build_results, mode device: the traversal of the next device.
BuildResultsDevice ==
  /\ wpc = "build"
  /\ traversal_mode = "device"
  /\ pending_devices # {}
  /\ LET d == NextDevice(pending_devices)
     IN /\ pending_devices' = pending_devices \ {d}
        /\ WorkflowRunEntry(d)
  /\ UNCHANGED << svars, pvars, vvars >>
  /\ UNCHANGED << caller_payload, edges,
                  use_workflow_devices, traversal_mode, targets,
                  device_results, final_success, stop, cancelled,
                  run_dispatched >>

\* Workflow.build_results, mode device: every device was traversed.
BuildResultsAggregate ==
  /\ wpc = "build"
  /\ traversal_mode = "device"
  /\ pending_devices = {}
  /\ final_success' = \A d \in DOMAIN device_results : device_results[d].success
  /\ wpc' = "done"
  /\ UNCHANGED << svars, pvars, vvars >>
  /\ UNCHANGED << sub_run, caller_payload, heap, payload_object, edges,
                  use_workflow_devices, traversal_mode, targets,
                  pending_devices, device, device_results, jobs, visited,
                  payload, results, allowed_devices, initial_targets, tp, stop,
                  cancelled, dispatched, run_dispatched, child_runs >>

\* Lines 335-336: run.stop seen at the top of an iteration.
LoopStop ==
  /\ wpc = "loop"
  /\ jobs # <<>>
  /\ StopObserved
  /\ Return(results)
  /\ cancelled' = TRUE
  /\ UNCHANGED << svars, pvars, vvars >>
  /\ UNCHANGED << sub_run, caller_payload, heap, payload_object, edges,
                  use_workflow_devices, traversal_mode, targets,
                  pending_devices, device, jobs, visited, payload, results,
                  allowed_devices, initial_targets, tp, stop, dispatched,
                  run_dispatched, child_runs >>

StackAfterContinueRequeue(job, rest) ==
  IF job \in visited THEN rest ELSE << job >> \o rest

\* Lines 337-342: "job = jobs.pop()" and "continue": the job is dropped.
StackAfterContinue(job, rest) == rest

\* Lines 337-342: the popped job was visited or waits for a prerequisite.
LoopContinue ==
  /\ wpc = "loop"
  /\ jobs # <<>>
  /\ ~StopObserved
  /\ Blocked(jobs[Len(jobs)])
  /\ jobs' = StackAfterContinue(jobs[Len(jobs)], SubSeq(jobs, 1, Len(jobs) - 1))
  /\ UNCHANGED << svars, pvars, vvars >>
  /\ UNCHANGED << sub_run, caller_payload, heap, payload_object, edges,
                  use_workflow_devices, traversal_mode, targets, wpc,
                  pending_devices, device, device_results, final_success,
                  visited, payload, results, allowed_devices, initial_targets,
                  tp, stop, cancelled, dispatched, run_dispatched, child_runs >>

\* Lines 337-430: the popped job is visited and run (or skipped), its result
\* is stored and its successors are appended.
LoopDispatch ==
  /\ wpc = "loop"
  /\ jobs # <<>>
  /\ ~StopObserved
  /\ LET job == jobs[Len(jobs)]
         rest == SubSeq(jobs, 1, Len(jobs) - 1)
     IN
     /\ ~Blocked(job)
     /\ visited' = visited \cup {job}
     /\ \E skip \in SkipChoices(job), has_targets \in HasTargetsChoices(job),
           python_query \in PythonQueryChoices(job) :
          /\ skip => (~has_targets /\ ~python_query)
          /\ \E job_run \in
                 IF skip THEN { SkippedRun }
                 ELSE IF use_workflow_devices /\ python_query
                 THEN SubRuns(job)
                 ELSE OrdinaryRuns(job, has_targets) :
               LET job_results == job_run.result
                   passed == PassedDevices(job, job_results, has_targets)
                   failed == FailedDevices(job, job_results, has_targets)
               IN
               /\ payload' = Put(payload, job, job_results)
               /\ caller_payload' = CallerPayloadAfter(job, job_results)
               /\ \E order \in IF PropagatesDevices
                               THEN TargetsProcessingOrders(job, passed, failed)
                               ELSE PlainOrders(job, job_results) :
                    /\ jobs' = rest \o order
                    /\ results' = [results EXCEPT
                                     !.results = payload',
                                     !.initial = payload_object.initial,
                                     !.success = SuccessAfterAppend(order)]
               /\ IF PropagatesDevices
                  THEN /\ allowed_devices' = AllowedAfter(job, passed, failed)
                       /\ initial_targets' = InitialTargetsAfter(job, passed, failed)
                       /\ tp' = [job |-> job, passed |-> passed, failed |-> failed]
                  ELSE UNCHANGED << allowed_devices, initial_targets, tp >>
               /\ sub_run' = job_run.sub_run
               /\ child_runs' = [child_runs EXCEPT ![job] = @ + job_run.child_runs]
     /\ dispatched' = [dispatched EXCEPT ![job] = @ + 1]
     /\ run_dispatched' = [run_dispatched EXCEPT ![job] = @ + 1]
  /\ UNCHANGED << svars, pvars, vvars >>
  /\ UNCHANGED << heap, payload_object, edges,
                  use_workflow_devices, traversal_mode, targets, wpc,
                  pending_devices, device, device_results, final_success, stop,
                  cancelled >>

FinalResultsSubset ==
  IF PropagatesDevices
  THEN [results EXCEPT
          !.has_devices = TRUE,
          !.devices = [d \in initial_targets |-> d \in allowed_devices[EndJob]],
          !.success = (allowed_devices[EndJob] \subseteq initial_targets)]
  ELSE results

\* Lines 431-438: the stack is empty.
FinalResults ==
  IF PropagatesDevices
  THEN [results EXCEPT
          !.has_devices = TRUE,
          !.devices = [d \in initial_targets |-> d \in allowed_devices[EndJob]],
          !.success = (initial_targets = allowed_devices[EndJob])]
  ELSE results

LoopExit ==
  /\ wpc = "loop"
  /\ jobs = <<>>
  /\ results' = FinalResults
  /\ Return(results')
  /\ UNCHANGED << svars, pvars, vvars >>
  /\ UNCHANGED << sub_run, caller_payload, heap, payload_object, edges,
                  use_workflow_devices, traversal_mode, targets,
                  pending_devices, device, jobs, visited, payload,
                  allowed_devices, initial_targets, tp, stop, cancelled,
                  dispatched, run_dispatched, child_runs >>

\* Another thread sets run.stop while the Run is going on.
SetStop ==
  /\ wpc = "loop"
  /\ ~stop
  /\ stop' = TRUE
  /\ UNCHANGED << svars, pvars, vvars >>
  /\ UNCHANGED << sub_run, caller_payload, heap, payload_object, edges,
                  use_workflow_devices, traversal_mode, targets, wpc,
                  pending_devices, device, device_results, final_success, jobs,
                  visited, payload, results, allowed_devices, initial_targets,
                  tp, cancelled, dispatched, run_dispatched, child_runs >>

Init ==
  /\ traversal_mode \in {"service", "device"}
  /\ edges \in IF traversal_mode = "service" THEN Graphs ELSE DeviceModeGraphs
  /\ use_workflow_devices \in BOOLEAN
  /\ targets \in SUBSET Devices
  /\ wpc = "build"
  /\ pending_devices = IF traversal_mode = "device" THEN targets ELSE {}
  /\ device = 0
  /\ device_results = EmptyDict
  /\ final_success = FALSE
  /\ jobs = <<>>
  /\ visited = {}
  /\ payload = EmptyDict
  /\ results = NoResults
  /\ allowed_devices = [j \in Jobs |-> {}]
  /\ initial_targets = {}
  /\ tp = NoTp
  /\ stop = FALSE
  /\ cancelled = FALSE
  /\ dispatched = ZeroCount
  /\ run_dispatched = ZeroCount
  /\ child_runs = ZeroCount
  /\ caller_payload = CallerPayload
  /\ heap = CallerHeap
  /\ payload_object = CallerObject
  /\ sub_run = NoSubRun
  /\ VisitIdle
  /\ ServiceIdle
  /\ PoolIdle

\* After the Run returned, its caller changes its own payload: the object
\* its "initial" entry refers to, and a new key.
CallerMutatesPayload ==
  /\ wpc = "done"
  /\ heap[1] = 0
  /\ heap' = [heap EXCEPT ![1] = 1]
  /\ caller_payload' = Put(caller_payload, "later", [ref |-> 1])
  /\ UNCHANGED << svars, pvars, vvars >>
  /\ UNCHANGED << sub_run, payload_object, edges, use_workflow_devices,
                  traversal_mode, targets, wpc, pending_devices, device, device_results,
                  final_success, jobs, visited, payload, results,
                  allowed_devices, initial_targets, tp, stop, cancelled,
                  dispatched, run_dispatched, child_runs >>

Next ==
  \/ CallerMutatesPayload
  \/ BuildResultsService
  \/ BuildResultsDevice
  \/ BuildResultsAggregate
  \/ LoopStop
  \/ LoopContinue
  \/ LoopDispatch
  \/ LoopExit
  \/ SetStop

Spec == Init /\ [][Next]_vars

\* Two jobs that wait for each other: each is the source of a prerequisite
\* edge to the other.
PrerequisiteCycle ==
  \E a, b \in Jobs :
    /\ a # b
    /\ Edge(a, b, "prerequisite") \in edges
    /\ Edge(b, a, "prerequisite") \in edges

\* Two jobs that are successors of each other.
FlowCycle ==
  \E a, b \in Jobs, t, u \in {"success", "failure"} :
    /\ a # b
    /\ Edge(a, b, t) \in edges
    /\ Edge(b, a, u) \in edges

\* The Runs whose termination is examined: every graph with at most one
\* target device, and the graphs with a cycle with every set of targets.
InitTerminates ==
  /\ Init
  /\ \/ Cardinality(targets) <= 1
     \/ FlowCycle
     \/ PrerequisiteCycle

\* The thread that runs Workflow.build_results executes one statement after
\* the other and every child Run returns: a step of the traversal that can
\* be taken is taken.  Nothing obliges another thread to set run.stop.
Traversal ==
  \/ BuildResultsService
  \/ BuildResultsDevice
  \/ BuildResultsAggregate
  \/ LoopStop
  \/ LoopContinue
  \/ LoopDispatch
  \/ LoopExit

NextTerminates ==
  \/ Traversal
  \/ SetStop

SpecTerminates ==
  InitTerminates /\ [][NextTerminates]_vars /\ WF_vars(Traversal)

\* ------------------------- workflow_run, one statement at a time
\* The loop of lines 334-430 in mode service, where the steps of one
\* iteration are separate: the child Run returns, the generator of the
\* successors is created, payload[job.name] is assigned, and the generator
\* is iterated, one successor at a time.

CreateSuccessorsEager(job, job_results, has_targets) ==
  LET passed == PassedDevices(job, job_results, has_targets)
      failed == FailedDevices(job, job_results, has_targets)
  IN IF PropagatesDevices
     THEN [generator |-> [started |-> FALSE, yields |-> <<>>],
           allowed_devices |-> AllowedAfter(job, passed, failed),
           initial_targets |-> InitialTargetsAfter(job, passed, failed)]
     ELSE [generator |-> [started |-> FALSE, yields |-> <<>>],
           allowed_devices |-> allowed_devices,
           initial_targets |-> initial_targets]

\* Lines 410-422: successors is bound to a generator (the call of the
\* generator function workflow_targets_processing, or a generator
\* expression); nothing of its body has run yet.
CreateSuccessors(job, job_results, has_targets) ==
  [generator |-> [started |-> FALSE, yields |-> <<>>],
   allowed_devices |-> allowed_devices,
   initial_targets |-> initial_targets]

\* A sequence of successors as yields of one edge type.
Yields(order, edge_type) ==
  [i \in DOMAIN order |-> [successor |-> order[i], edge_type |-> edge_type]]

\* What workflow_targets_processing will yield, in order.
TargetsProcessingYields(job, passed, failed) ==
  { Yields(p, "success") \o Yields(q, "failure") :
      p \in Perms(YieldedAlong(job, passed, "success")),
      q \in Perms(YieldedAlong(job, failed, "failure")) }

\* What the generator expression of lines 415-422 will yield, in order.
PlainYields(job, job_results) ==
  { Yields(p, IF Truthy(job_results.success) THEN "success" ELSE "failure") :
      p \in PlainOrders(job, job_results) }

\* Line 314: allowed_devices[successor.name] |= devices (the sets of the
\* start jobs are the initial_targets object).
AllowedExtended(successor, devices) ==
  [s \in Jobs |->
     IF s = successor \/ (s \in StartSet /\ successor \in StartSet)
     THEN allowed_devices[s] \cup devices
     ELSE allowed_devices[s]]

\* The traversal has been entered (lines 321-333), in mode service.
InitVisit ==
  /\ traversal_mode = "service"
  /\ edges \in NamedGraphs
  /\ use_workflow_devices \in BOOLEAN
  /\ targets \in SUBSET Devices
  /\ wpc = "loop"
  /\ pending_devices = {}
  /\ device = 0
  /\ device_results = EmptyDict
  /\ final_success = FALSE
  /\ jobs = start_jobs
  /\ visited = {}
  /\ payload = EmptyDict
  /\ results = NoResults
  /\ allowed_devices =
       [j \in Jobs |-> IF PropagatesDevices /\ j \in StartSet THEN targets ELSE {}]
  /\ initial_targets = IF PropagatesDevices THEN targets ELSE {}
  /\ tp = NoTp
  /\ stop = FALSE
  /\ cancelled = FALSE
  /\ dispatched = ZeroCount
  /\ run_dispatched = ZeroCount
  /\ child_runs = ZeroCount
  /\ caller_payload = CallerPayload
  /\ payload_object = deepcopy(CallerObject, CallerHeap).object
  /\ heap = deepcopy(CallerObject, CallerHeap).heap
  /\ sub_run = NoSubRun
  /\ vpc = "top"
  /\ current = NoCurrent
  /\ successors = NoGenerator
  /\ assignments = ZeroCount
  /\ pushers = [i \in DOMAIN start_jobs |-> "none"]
  /\ ServiceIdle
  /\ PoolIdle

\* Lines 335-336.
VisitStop ==
  /\ vpc = "top"
  /\ LoopStop

\* Lines 337-342.
VisitContinue ==
  /\ wpc = "loop"
  /\ vpc = "top"
  /\ jobs # <<>>
  /\ ~StopObserved
  /\ Blocked(jobs[Len(jobs)])
  /\ jobs' = StackAfterContinue(jobs[Len(jobs)], SubSeq(jobs, 1, Len(jobs) - 1))
  /\ pushers' = SubSeq(pushers, 1, Len(pushers) - 1)
  /\ UNCHANGED << vpc, current, successors, assignments >>
  /\ UNCHANGED << svars, pvars >>
  /\ UNCHANGED << sub_run, caller_payload, heap, payload_object, edges,
                  use_workflow_devices, traversal_mode, targets, wpc,
                  pending_devices, device, device_results, final_success,
                  visited, payload, results, allowed_devices, initial_targets,
                  tp, stop, cancelled, dispatched, run_dispatched, child_runs >>

\* Lines 337-408: the job is popped and visited, and its child Run returns
\* (or the job is skipped): job_results is bound.
VisitRun ==
  /\ wpc = "loop"
  /\ vpc = "top"
  /\ jobs # <<>>
  /\ ~StopObserved
  /\ LET job == jobs[Len(jobs)]
     IN
     /\ ~Blocked(job)
     /\ visited' = visited \cup {job}
     /\ jobs' = SubSeq(jobs, 1, Len(jobs) - 1)
     /\ pushers' = SubSeq(pushers, 1, Len(pushers) - 1)
     /\ \E skip \in SkipChoices(job), has_targets \in HasTargetsChoices(job),
           python_query \in PythonQueryChoices(job) :
          /\ skip => (~has_targets /\ ~python_query)
          /\ \E job_run \in
                 IF skip THEN { SkippedRun }
                 ELSE IF use_workflow_devices /\ python_query
                 THEN SubRuns(job)
                 ELSE OrdinaryRuns(job, has_targets) :
               /\ current' = [job |-> job, results |-> job_run.result,
                              has_targets |-> has_targets]
               /\ sub_run' = job_run.sub_run
               /\ child_runs' = [child_runs EXCEPT ![job] = @ + job_run.child_runs]
     /\ dispatched' = [dispatched EXCEPT ![job] = @ + 1]
     /\ run_dispatched' = [run_dispatched EXCEPT ![job] = @ + 1]
  /\ vpc' = "returned"
  /\ UNCHANGED << successors, assignments >>
  /\ UNCHANGED << svars, pvars >>
  /\ UNCHANGED << caller_payload, heap, payload_object, edges,
                  use_workflow_devices, traversal_mode, targets, wpc,
                  pending_devices, device, device_results, final_success,
                  payload, results, allowed_devices, initial_targets, tp, stop,
                  cancelled >>

\* Lines 409-422: successors is bound.
VisitSuccessors ==
  /\ wpc = "loop"
  /\ vpc = "returned"
  /\ LET made == CreateSuccessors(current.job, current.results,
                                  current.has_targets)
     IN /\ successors' = made.generator
        /\ allowed_devices' = made.allowed_devices
        /\ initial_targets' = made.initial_targets
  /\ vpc' = "generator"
  /\ UNCHANGED << current, assignments, pushers >>
  /\ UNCHANGED << svars, pvars >>
  /\ UNCHANGED << sub_run, caller_payload, heap, payload_object, edges,
                  use_workflow_devices, traversal_mode, targets, wpc,
                  pending_devices, device, device_results, final_success, jobs,
                  visited, payload, results, tp, stop, cancelled, dispatched,
                  run_dispatched, child_runs >>

\* Lines 423-424: payload[job.name] = job_results, mirrored into results.
VisitAssign ==
  /\ wpc = "loop"
  /\ vpc = "generator"
  /\ payload' = Put(payload, current.job, current.results)
  /\ caller_payload' = CallerPayloadAfter(current.job, current.results)
  /\ results' = [results EXCEPT !.results = payload',
                                !.initial = payload_object.initial]
  /\ assignments' = [assignments EXCEPT ![current.job] = @ + 1]
  /\ vpc' = "iterate"
  /\ UNCHANGED << current, successors, pushers >>
  /\ UNCHANGED << svars, pvars >>
  /\ UNCHANGED << sub_run, heap, payload_object, edges, use_workflow_devices,
                  traversal_mode, targets, wpc, pending_devices, device,
                  device_results, final_success, jobs, visited,
                  allowed_devices, initial_targets, tp, stop, cancelled,
                  dispatched, run_dispatched, child_runs >>

\* Line 425, the first next(successors): the generator starts.  Lines
\* 290-306 compute passed_devices and failed_devices; the order of the edges
\* fixes what will be yielded.
VisitStart ==
  /\ wpc = "loop"
  /\ vpc = "iterate"
  /\ ~successors.started
  /\ LET passed == PassedDevices(current.job, current.results,
                                 current.has_targets)
         failed == FailedDevices(current.job, current.results,
                                 current.has_targets)
     IN /\ \E yields \in
               IF PropagatesDevices
               THEN TargetsProcessingYields(current.job, passed, failed)
               ELSE PlainYields(current.job, current.results) :
             successors' = [started |-> TRUE, yields |-> yields]
        /\ tp' = IF PropagatesDevices
                 THEN [job |-> current.job, passed |-> passed, failed |-> failed]
                 ELSE tp
  /\ UNCHANGED << vpc, current, assignments, pushers >>
  /\ UNCHANGED << svars, pvars >>
  /\ UNCHANGED << sub_run, caller_payload, heap, payload_object, edges,
                  use_workflow_devices, traversal_mode, targets, wpc,
                  pending_devices, device, device_results, final_success, jobs,
                  visited, payload, results, allowed_devices, initial_targets,
                  stop, cancelled, dispatched, run_dispatched, child_runs >>

\* Lines 313-316 and 425-428: the generator extends the allowed set of the
\* next successor and yields it; the loop body appends it to the stack.
VisitYield ==
  /\ wpc = "loop"
  /\ vpc = "iterate"
  /\ successors.started
  /\ successors.yields # <<>>
  /\ LET yielded == Head(successors.yields)
         devices == IF yielded.edge_type = "success" THEN tp.passed ELSE tp.failed
     IN /\ IF PropagatesDevices
           THEN /\ allowed_devices' = AllowedExtended(yielded.successor, devices)
                /\ initial_targets' =
                     IF yielded.successor \in StartSet
                     THEN initial_targets \cup devices ELSE initial_targets
           ELSE UNCHANGED << allowed_devices, initial_targets >>
        /\ jobs' = Append(jobs, yielded.successor)
        /\ pushers' = Append(pushers, current.job)
        /\ results' = [results EXCEPT
                         !.success = SuccessAfterAppend(<< yielded.successor >>)]
  /\ successors' = [successors EXCEPT !.yields = Tail(@)]
  /\ UNCHANGED << vpc, current, assignments >>
  /\ UNCHANGED << svars, pvars >>
  /\ UNCHANGED << sub_run, caller_payload, heap, payload_object, edges,
                  use_workflow_devices, traversal_mode, targets, wpc,
                  pending_devices, device, device_results, final_success,
                  visited, payload, tp, stop, cancelled, dispatched,
                  run_dispatched, child_runs >>

\* Lines 425, 429-430: the generator is exhausted; the iteration ends.
VisitEnd ==
  /\ wpc = "loop"
  /\ vpc = "iterate"
  /\ successors.started
  /\ successors.yields = <<>>
  /\ vpc' = "top"
  /\ UNCHANGED << current, successors, assignments, pushers >>
  /\ UNCHANGED << wvars, svars, pvars >>

\* Lines 431-438.
VisitExit ==
  /\ vpc = "top"
  /\ LoopExit

NextVisit ==
  \/ VisitStop
  \/ VisitContinue
  \/ VisitRun
  \/ VisitSuccessors
  \/ VisitAssign
  \/ VisitStart
  \/ VisitYield
  \/ VisitEnd
  \/ VisitExit
  \/ SetStop

SpecVisit == InitVisit /\ [][NextVisit]_vars

\* The step appends a successor to the stack or extends an allowed set.
EnqueuesOrExtends ==
  \/ Len(jobs') > Len(jobs)
  \/ allowed_devices' # allowed_devices

\* The step assigns payload[j].
Assigns(j) ==
  j \in DOMAIN payload' /\ (j \in DOMAIN payload => payload'[j] # payload[j])

\* C19: in every node visit payload[job.name] is assigned exactly once, after
\* the node's child Run has returned, and every successor of the node is
\* pushed onto the stack (and its allowed set extended) only after that
\* assignment, so that a successor always runs with a payload that contains
\* its predecessor's result.
C19_AssignedOnceBeforeSuccessors ==
  [][/\ \A j \in Jobs :
          (Assigns(j) \/ assignments'[j] # assignments[j]) =>
            /\ j = current.job
            /\ vpc \in {"returned", "generator"}
            /\ payload'[j] = current.results
            /\ assignments[j] = 0
            /\ assignments'[j] = 1
     /\ EnqueuesOrExtends =>
          /\ assignments[current.job] = 1
          /\ current.job \in DOMAIN payload
          /\ payload[current.job] = current.results
          /\ current.job \in DOMAIN results.results
     /\ (vpc = "iterate" /\ vpc' = "top") => assignments[current.job] = 1
     /\ (vpc = "top" /\ vpc' = "returned") =>
          LET pusher == pushers[Len(pushers)]
          IN pusher # "none" =>
               /\ pusher \in DOMAIN payload
               /\ current'.job \in
                    IF PropagatesDevices
                    THEN Destinations(edges, pusher, "success")
                           \cup Destinations(edges, pusher, "failure")
                    ELSE Destinations(edges, pusher,
                                      IF Truthy(payload[pusher].success)
                                      THEN "success" ELSE "failure")]_vars

\* A failed on device 2 and succeeded on device 1: its result was assigned,
\* then B and C were pushed with their allowed sets, and C is running with
\* A's result in the payload.
C19_Witness ==
  /\ edges = SplitGraph
  /\ PropagatesDevices
  /\ vpc = "returned"
  /\ current.job = "C"
  /\ assignments["A"] = 1
  /\ payload["A"].devices = [d \in {1, 2} |-> d = 1]
  /\ allowed_devices["C"] = {2}
  /\ jobs = << "B" >>

\* ------------------------------------------------- workflow_run: claims
\* The step visits and dispatches job j.
Dispatches(j) == j \notin visited /\ j \in visited'

\* The successors the step appended to the stack after popping one job.
Appended ==
  { jobs'[i] : i \in Len(jobs)..Len(jobs') }

PrerequisitesOf(j) == Sources(edges, j, "prerequisite")

C4_PrerequisitesVisitedFirst ==
  [][\A j \in Jobs :
       (Dispatches(j) \/ run_dispatched'[j] > run_dispatched[j])
         => PrerequisitesOf(j) \subseteq visited]_vars

\* The join job C was visited, after A and B.
C4_Witness ==
  /\ edges = JoinSuccessGraph
  /\ "C" \in visited
  /\ dispatched["C"] = 1

\* C5: in the workflow Start -> A, Start -> B, A --prerequisite--> C,
\* B --prerequisite--> C, C -> End the join job C is executed exactly once
\* by the time an uncancelled traversal ends (after A and B).
C5_JoinCompletes ==
  (edges = JoinGraph /\ wpc = "done" /\ ~cancelled
     /\ dispatched["A"] = 1 /\ dispatched["B"] = 1)
    => dispatched["C"] = 1

\* C6: with use_workflow_devices in mode service, allowed["End"] is always a
\* subset of the initial targets, and when the traversal ran to completion
\* results.success is true exactly when allowed["End"] equals the initial
\* targets and results.devices maps every initial target d to
\* success = (d in allowed["End"]).
C6_EndDevicesDecideSuccess ==
  PropagatesDevices =>
    /\ allowed_devices[EndJob] \subseteq targets
    /\ wpc # "build" => initial_targets = targets
    /\ (wpc = "done" /\ ~cancelled) =>
         /\ results.success <=> (allowed_devices[EndJob] = targets)
         /\ final_success = results.success
         /\ results.has_devices
         /\ results.devices = [d \in targets |-> d \in allowed_devices[EndJob]]

\* A completed traversal where one device reached End and the other did not.
C6_Witness ==
  /\ PropagatesDevices
  /\ wpc = "done"
  /\ ~cancelled
  /\ targets = Devices
  /\ allowed_devices[EndJob] = {1}
  /\ ~final_success
  /\ results.devices[1]
  /\ ~results.devices[2]

\* What the step added to the allowed set of s.
AddedTo(s) == allowed_devices'[s] \ allowed_devices[s]

\* C7 as stated: for each processed node passed and failed are disjoint,
\* every passed device is added to every success-successor and every failed
\* device to every failure-successor, and the node adds no passed device to
\* a failure-successor's allowed set nor a failed device to a
\* success-successor's.
C7_NoFlowIntoOtherSuccessors ==
  [][\A j \in Jobs :
       (PropagatesDevices /\ Dispatches(j)) =>
         LET passed == tp'.passed
             failed == tp'.failed
             toS == Destinations(edges, j, "success")
             toF == Destinations(edges, j, "failure")
         IN /\ tp'.job = j
            /\ passed \cap failed = {}
            /\ \A s \in toS : passed \subseteq allowed_devices'[s]
            /\ \A s \in toF : failed \subseteq allowed_devices'[s]
            /\ \A s \in toF : AddedTo(s) \cap passed = {}
            /\ \A s \in toS : AddedTo(s) \cap failed = {}]_vars

\* C7 as amended: the same, where the last part holds of the successors the
\* node reaches by edges of one type only: what it adds to a successor
\* reached by failure edges only are failed devices, to one reached by
\* success edges only passed devices, and to any other job nothing.
C7_FlowFollowsEdgeType ==
  [][\A j \in Jobs :
       (PropagatesDevices /\ Dispatches(j)) =>
         LET passed == tp'.passed
             failed == tp'.failed
             toS == Destinations(edges, j, "success")
             toF == Destinations(edges, j, "failure")
         IN /\ tp'.job = j
            /\ passed \cap failed = {}
            /\ \A s \in toS : passed \subseteq allowed_devices'[s]
            /\ \A s \in toF : failed \subseteq allowed_devices'[s]
            /\ \A s \in toF \ toS : AddedTo(s) \subseteq failed
            /\ \A s \in toS \ toF : AddedTo(s) \subseteq passed
            /\ \A s \in Jobs \ (toS \cup toF) : AddedTo(s) = {}]_vars

\* A succeeded on device 1 and failed on device 2: B (success edge) is
\* allowed device 1 only and C (failure edge) device 2 only.
C7_Witness ==
  /\ edges = SplitGraph
  /\ PropagatesDevices
  /\ tp = [job |-> "A", passed |-> {1}, failed |-> {2}]
  /\ allowed_devices["B"] = {1}
  /\ allowed_devices["C"] = {2}

\* C8: the Workflow Start -> End returns success=true for every combination
\* of use_workflow_devices, traversal_mode and initial target set.
C8_StartEndSucceeds ==
  (edges = StartEndGraph /\ wpc = "done" /\ ~cancelled) => final_success

\* C9: a skipped member Job creates no child Run, its recorded result is
\* {success: "skipped"}, and its successors are taken along success edges
\* only; when devices are propagated its whole allowed set is added to the
\* allowed set of each success-successor and nothing goes anywhere else.
C9_SkippedJobFollowsSuccessEdges ==
  [][\A j \in Jobs :
       (Dispatches(j) /\ payload'[j].success = "skipped") =>
         LET toS == Destinations(edges, j, "success")
         IN /\ child_runs'[j] = child_runs[j]
            /\ payload'[j] = SkippedResult
            /\ results'.results[j] = SkippedResult
            /\ Appended \subseteq toS
            /\ (~PropagatesDevices \/ allowed_devices[j] # {}) => Appended = toS
            /\ PropagatesDevices =>
                 \A s \in Jobs :
                   allowed_devices'[s] =
                     IF s \in toS
                     THEN allowed_devices[s] \cup allowed_devices[j]
                     ELSE allowed_devices[s]]_vars

\* A was skipped with devices 1 and 2 allowed: B, its success-successor, is
\* enqueued with both, although A also has a failure edge.
C9_Witness ==
  /\ PropagatesDevices
  /\ Edge("A", "B", "success") \in edges
  /\ Edge("A", "End", "failure") \in edges
  /\ "A" \in DOMAIN payload
  /\ payload["A"] = SkippedResult
  /\ child_runs["A"] = 0
  /\ tp = [job |-> "A", passed |-> Devices, failed |-> {}]
  /\ allowed_devices["B"] = Devices
  /\ allowed_devices[EndJob] = {}
  /\ jobs = << "B" >>

\* run.stop is true at the top of a loop iteration.
StopAtLoopTop == wpc = "loop" /\ jobs # <<>> /\ stop

\* C10: once run.stop is true at the top of a loop iteration no further
\* member Job is dispatched and the traverser returns at once; what it
\* returns is the results accumulated so far, untouched, holding the output of
\* every job dispatched before and of no other job.
C10_StopReturnsPartialResults ==
  [][/\ StopAtLoopTop =>
          /\ wpc' # "loop"
          /\ cancelled'
          /\ results' = results
          /\ IF traversal_mode = "service"
             THEN wpc' = "done"
             ELSE device_results'[device] = results
          /\ DOMAIN results.results = { j \in Jobs : dispatched[j] > 0 }
          /\ \A j \in DOMAIN results.results : results.results[j] = payload[j]
     /\ (StopAtLoopTop \/ cancelled) => run_dispatched' = run_dispatched]_vars

\* The traversal was stopped after A completed, with a job still pending: the
\* value returned holds the output of Start and A only.
C10_Witness ==
  /\ cancelled
  /\ wpc = "done"
  /\ jobs # <<>>
  /\ DOMAIN results.results = {"Start", "A"}
  /\ results.results["A"].success = "true"

\* End was enqueued as a successor of a job recorded in p, where the
\* successors are those of the edge type that matches the job's success.
EndEnqueuedIn(p) ==
  \E j \in DOMAIN p :
    EndJob \in Destinations(edges, j,
                            IF Truthy(p[j].success) THEN "success" ELSE "failure")

\* C11 as stated: a traversal that returned because stop was observed while
\* jobs were still pending reports success=false.
C11_StopReportsFailure ==
  (cancelled /\ wpc # "loop") => ~results.success

\* C11 as amended: a traversal that returned because stop was observed while
\* jobs were still pending reports the success computed so far: true when,
\* without use_workflow_devices, End was already enqueued as a successor of
\* an executed job, and false otherwise; in mode service this is the success
\* of the Run.
C11_StopReportsSuccessSoFar ==
  (cancelled /\ wpc # "loop") =>
    /\ results.success <=>
         (~use_workflow_devices /\ EndEnqueuedIn(results.results))
    /\ traversal_mode = "service" => final_success = results.success
    /\ traversal_mode = "device" => device_results[device] = results

\* Stop was seen after A had enqueued End and B: the Run returned
\* success=true with both still pending.
C11_Witness ==
  /\ cancelled
  /\ wpc = "done"
  /\ traversal_mode = "service"
  /\ final_success
  /\ "A" \in DOMAIN results.results
  /\ jobs = << "End", "B" >>

\* C13: when device sets are not propagated (not use_workflow_devices, or
\* mode device), a completed job enqueues exactly the destinations of its
\* edges of the kind that matches its success (success edges when truthy,
\* failure edges when false); hence Start -> A --failure--> B -> End with A
\* failing and B succeeding ends with success=true and A and B in the payload.
C13_MatchingEdgesAndFailurePathSucceeds ==
  /\ [][\A j \in Jobs :
          (~PropagatesDevices /\ Dispatches(j)) =>
            Appended = Destinations(edges, j,
                                    IF Truthy(payload'[j].success)
                                    THEN "success" ELSE "failure")]_vars
  /\ []((/\ edges = FailureEdgeGraph
          /\ ~PropagatesDevices
          /\ wpc # "loop"
          /\ ~cancelled
          /\ {"A", "B"} \subseteq DOMAIN payload
          /\ payload["A"].success = "false"
          /\ payload["B"].success = "true")
         => /\ results.success
            /\ {"A", "B"} \subseteq DOMAIN results.results)

\* The contents of the object at address a (-1: no object).
Deref(a) == IF a \in DOMAIN heap THEN heap[a] ELSE -1

\* What the results returned and stored say: the result records, and the
\* contents of the objects their "initial" entries refer to.
StoredResults ==
  [returned |-> results,
   initial |-> Deref(results.initial),
   success |-> final_success,
   devices |-> device_results,
   device_initial |-> [d \in DOMAIN device_results |->
                         Deref(device_results[d].initial)]]

\* C16: the traversal works on a deep copy of the payload taken at entry: it
\* never adds, removes or changes a key of the caller's payload (nor the
\* object an entry refers to), and a mutation of the caller's payload after
\* the Run returned never changes the results the Run returned and stored.
C16_TraversalWorksOnDeepCopy ==
  [][/\ wpc # "done" => /\ caller_payload' = caller_payload
                         /\ heap'[1] = heap[1]
     /\ wpc = "done" => StoredResults' = StoredResults]_vars

\* The Run returned results with the entries of Start and A and the initial
\* entry, then the caller changed its payload: the caller's dict has no job
\* entry and the stored initial entry still has the contents it was copied
\* with.
C16_Witness ==
  /\ wpc = "done"
  /\ {"Start", "A"} \subseteq DOMAIN results.results
  /\ DOMAIN caller_payload = {"initial", "later"}
  /\ heap[1] = 1
  /\ results.initial # 1
  /\ Deref(results.initial) = 0

\* C17: in a per-target sub-run (use_workflow_devices, the job has a target
\* query, mode service) one child Run is attempted for every device of
\* allowed[job.name]; an exception for one target yields {success: false,
\* error} for that target only, the other targets being run all the same;
\* and the node's success is the conjunction of the per-target success
\* values, false whenever an entry has success=false, those produced by an
\* exception included.
C17_SubRunSuccessIsConjunction ==
  [][\A j \in Jobs :
       (Dispatches(j) /\ sub_run'.job = j) =>
         /\ child_runs'[j] = child_runs[j] + Cardinality(allowed_devices[j])
         /\ DOMAIN payload'[j].devices = allowed_devices[j]
         /\ \A d \in sub_run'.raised : ~payload'[j].devices[d]
         /\ payload'[j].success = AllSuccess(payload'[j].devices)]_vars

\* C18: in every traversal that is not (use_workflow_devices and mode
\* service), mode device with use_workflow_devices included, results.success
\* is true if and only if End was enqueued as a successor of some executed
\* job during the traversal.
C18_SuccessIffEndEnqueued ==
  (~PropagatesDevices /\ wpc # "loop") =>
    (results.success <=> EndEnqueuedIn(results.results))

\* C22: the traversal always terminates: in every graph, with cycles over
\* success and failure edges and with prerequisite cycles, and with every
\* child Run returning, a workflow_run that entered its loop returns, with
\* the pending stack empty unless it returned at "if run.stop".
C22_TraversalTerminates ==
  (wpc = "loop") ~> (wpc # "loop" /\ (jobs = << >> \/ cancelled))

\* A traversal of a graph with a cycle of success edges returned with an
\* empty stack after a job of the cycle was popped again and dropped.
C22_Witness ==
  /\ wpc = "done"
  /\ ~cancelled
  /\ jobs = << >>
  /\ FlowCycle
  /\ \E a, b \in visited :
       /\ a # b
       /\ Edge(a, b, "success") \in edges
       /\ Edge(b, a, "success") \in edges
       /\ Truthy(payload[a].success)
       /\ Truthy(payload[b].success)

\* C23: whenever a traversal that was not cancelled returns success=true,
\* the End job was visited (dispatched) during that traversal, in the
\* device-propagating mode (an empty initial target set included) and in
\* the mode where success is set when End is enqueued (End having an unmet
\* prerequisite included).
C23_SuccessImpliesEndVisited ==
  (wpc # "loop" /\ ~cancelled /\ results.success) =>
    (EndJob \in visited /\ dispatched[EndJob] >= 1)
====
